---- MODULE Spec2Model ----
(***************************************************************************)
(* Realtime game server: the stream (WebSocket) transport with its shared  *)
(* roster (GameState, Client) and the datagram (UDP) transport with its    *)
(* client table and reliability layer (UDPGameServer, UDPClient).          *)
(* main() starts exactly one of the two, so each has its own specification *)
(* (SpecStream, SpecUDP) over the variables of this module.                *)
(***************************************************************************)
EXTENDS Integers, Sequences, FiniteSets, TLC

\* ------------------------------------------------------------------ bounds
\* stream connections accepted during a run (each mints a fresh uuid)
MaxConns == 2
\* slots of a client's outbound queue; NewClient makes 256, the model scales
\* the capacity down so that a slow consumer fills it within the bounds
SendCap == 2
\* player ids that the frames of the stream peers name: each of the
\* connections may send them, so a frame is from its owner or from another
\* connection
MaxFrameIds == 1
\* largest coordinate a PlayerMove carries
MaxCoord == 1
\* pickups a player performs during a run
MaxPickups == 1
\* remote datagram endpoints
MaxEndpoints == 2
\* player ids the datagram clients choose from
MaxPlayerIds == 2
\* packet handler goroutines alive at the same time
MaxHandlers == 2
\* largest sequence number a datagram client puts into a packet
MaxSeq == 1
\* periods the clock advances during a run; more than ClientTimeout / ClockStep,
\* so that a client can be seen to time out
MaxTicks == 4
\* pickups next to each end of the uint32 range that a score is drawn from
MaxScoreSteps == 12
\* actions applied to a drawn score
MaxTallySteps == 2
\* rows of a drawn session table, and calls made on the drawn tables
MaxRows == 2
MaxStoreSteps == 4

\* ------------------------------------------------------- program constants
PickupPoints == 10
DefaultHealth == 100
\* UDPClient.IsTimeout: 30 s, in ms
ClientTimeout == 30000
\* UDPClient.GetTimeoutPackets: 100 ms
ResendAfter == 100
\* the clock advances by the period of the cleanup ticker: 10 s, in ms
ClockStep == 10000
\* handlePlayerMove logs a move event when sequence % 10 == 0
MoveLogEvery == 10
\* Player.Score is a uint32, kept here as two 16-bit limbs [hi, lo]
Limb == 65536

None == 0
\* session_end IS NULL
NullTime == 0 - 1
Conn == 1..MaxConns
\* uuid.New() in HandleConnection: a fresh id per connection
UUIDs == 1..MaxConns
Coords == 0..MaxCoord
Actions == {"attack", "pickup", "dance"}
Endpoints == 1..MaxEndpoints
PlayerIds == 1..MaxPlayerIds
Handlers == 1..MaxHandlers
\* the retransmission sweeper as a holder of UDPGameServer.mu
RelTask == MaxHandlers + 1
InSeqs == 0..MaxSeq

VARIABLES
    \* ---- stream transport
    pc,          \* position of each connection's HandleClientMessages goroutine
    client,      \* the Client made by NewClient: [ID, Player]
    gsClients,   \* GameState.clients: uuid -> connection
    gsWriter,    \* goroutine holding GameState.mu exclusively, or None
    send,        \* Client.Send: the buffered messages
    closedBy,    \* who closed Client.Send: "" (open), "overflow", "remove"
    closeCalls,  \* number of close(Client.Send) calls
    panic,       \* "" or the runtime panic that ended the process
    wp,          \* WritePump goroutine: "none", "running", "exited"
    connClosed,  \* Client.Conn was closed by the server
    sessionID,   \* sessionIDPtr of the connection (None = nil)
    lastStep,    \* history: the stream step just taken, [op, conn, frame]
    \* ---- persistence
    sessions,    \* game_sessions rows, row id = index
    dbCalls,     \* history: the persistence calls of the step just taken
    \* ---- datagram transport
    ugsClients,  \* UDPGameServer.clients: endpoint -> UDPClient
    clientByID,  \* UDPGameServer.clientByID: player id -> endpoint
    ugsWriter,   \* goroutine holding UDPGameServer.mu exclusively, or None
    ugsReaders,  \* goroutines holding UDPGameServer.mu shared
    hd,          \* the handlePacket goroutines: [pc, pkt, found]
    rel,         \* position of startReliabilityTask inside a sweep
    wire,        \* datagrams the server wrote to the socket, in order
    now,         \* the clock, in ms
    admits,      \* history: client records inserted per endpoint
    \* ---- Player.Score as the machine holds it
    tally,       \* a uint32 score: [score, before, action, steps]
    \* ---- the process (main)
    proc,        \* [at: where main stands, dbClosed: database.Close() has run]
    \* ---- the tables of the database and the players alive in memory
    store        \* [players, live, rows, clock, last]

streamVars == <<pc, client, gsClients, gsWriter, send, closedBy, closeCalls,
                panic, wp, connClosed, sessionID, lastStep>>

udpVars == <<ugsClients, clientByID, ugsWriter, ugsReaders, hd, rel, wire, now, admits>>

dbVars == <<sessions, dbCalls>>

vars == <<streamVars, dbVars, udpVars, tally, proc, store>>

\* ---------------------------------------------------------------- messages
PlayerName(id) == <<"Player_", id>>
NewPlayer(id, name) ==
    [id |-> id, name |-> name, x |-> 0, y |-> 0, health |-> DefaultHealth, score |-> 0]
\* a NewClient whose player record carries the id of another connection
NewClientForeignPlayer(id, name) ==
    [ID |-> id, Player |-> NewPlayer(CHOOSE u \in UUIDs : TRUE, name)]

NewClient(id, name) == [ID |-> id, Player |-> NewPlayer(id, name)]

NewPlayerJoinMessage(id, name) == [type |-> "PlayerJoin", player_id |-> id, name |-> name]
NewPlayerLeaveMessage(id) == [type |-> "PlayerLeave", player_id |-> id]
NewPlayerMoveMessage(id, x, y) == [type |-> "PlayerMove", player_id |-> id, x |-> x, y |-> y]
NewChatMessage(id, text) == [type |-> "Chat", player_id |-> id, message |-> text]
NewGameStateMessage(players) == [type |-> "GameState", players |-> players]
NewAckMessage(seq) == [type |-> "Ack", sequence |-> seq]
NewHeartbeatMessage(id, seq) == [type |-> "Heartbeat", player_id |-> id, sequence |-> seq]

\* no frame, no packet
NoFrame == [type |-> "none"]
\* the stream step just taken: the handler, its connection, and the frame it
\* dispatched (HandleMessage: type and verdict) or wrote (WritePump)
Step(op, c, frame) == [op |-> op, conn |-> c, frame |-> frame]

\* frames a stream peer may send
FrameIds == 1..MaxFrameIds
InboundMoves == [type : {"PlayerMove"}, player_id : FrameIds, x : Coords, y : Coords]
InboundActions == [type : {"PlayerAction"}, player_id : FrameIds, action : Actions]
InboundChats == [type : {"Chat"}, player_id : FrameIds, message : {"hi"}]
InboundOther == [type : {"Heartbeat"}, player_id : FrameIds, sequence : {1}]
Inbound == InboundMoves \cup InboundActions \cup InboundChats \cup InboundOther

\* ------------------------------------------------------ persistence gateway
\* Database.CreateSession: INSERT, the row id is the new last index
CreateSession(rows, playerID, protocol) ==
    Append(rows, [player_id |-> playerID, protocol |-> protocol, ended |-> FALSE])
\* Database.EndSession: UPDATE ... WHERE id = ? AND session_end IS NULL
EndSessionRows(rows, sid) ==
    [i \in DOMAIN rows |-> IF i = sid THEN [rows[i] EXCEPT !.ended = TRUE] ELSE rows[i]]
\* A persistence call of a handler: the operation, the player it is about,
\* the value it writes (CreateOrUpdatePlayer and UpdatePlayerScore: the
\* score, UpdatePlayerPosition: the position, LogEvent: the event type) and
\* whether it succeeded. The rows of players, player_events and chat_messages
\* are what the successful calls wrote.
Call(op, id, value, ok) == [op |-> op, player |-> id, value |-> value, ok |-> ok]

\* ------------------------------------------------------------ sync.RWMutex
\* Lock() waits until nobody holds the mutex
LockFree(writer) == writer = None
\* RLock() waits while a writer holds the mutex, the caller itself included
RLockFree(writer) == writer = None

\* ---------------------------------------------------------- outbound queue
\* The queues as one value, threaded through the sends of a handler.
Queues == [send |-> send, closedBy |-> closedBy, calls |-> closeCalls, panic |-> panic]

\* Client.SendMessage: enqueue, or close the queue when it is full; a send on
\* a closed channel panics
SendMessage(qs, c, m) ==
    IF qs.panic # "" THEN qs
    ELSE IF qs.closedBy[c] # "" THEN [qs EXCEPT !.panic = "send on closed channel"]
    ELSE IF Len(qs.send[c]) < SendCap THEN [qs EXCEPT !.send[c] = Append(@, m)]
    ELSE [qs EXCEPT !.closedBy[c] = "overflow", !.calls[c] = @ + 1]

\* close(client.Send) in RemoveClient; closing a closed channel panics
CloseSend(qs, c) ==
    IF qs.panic # "" THEN qs
    ELSE IF qs.closedBy[c] # ""
         THEN [qs EXCEPT !.panic = "close of closed channel", !.calls[c] = @ + 1]
    ELSE [qs EXCEPT !.closedBy[c] = "remove", !.calls[c] = @ + 1]

\* the connections of the roster other than the excluded id (None = nil)
Targets(clients, exclude) == {clients[id] : id \in DOMAIN clients \ {exclude}}

\* GameState.broadcastMessage: SendMessage to every roster client but the
\* excluded one, in map order; a panic ends the loop (and the process)
RECURSIVE SendAll(_, _, _)
SendAll(qs, targets, m) ==
    IF targets = {} THEN qs
    ELSE LET c == CHOOSE t \in targets : TRUE
         IN SendAll(SendMessage(qs, c, m), targets \ {c}, m)
broadcastMessage(qs, clients, m, exclude) == SendAll(qs, Targets(clients, exclude), m)

\* a snapshot that lists every roster player as NewPlayer made it
SnapshotAsCreated(clients, cl) == {NewPlayer(id, PlayerName(id)) : id \in DOMAIN clients}

\* the []Player snapshot of the roster
Snapshot(clients, cl) == {cl[clients[id]].Player : id \in DOMAIN clients}

\* GameState.sendGameStateToClient
sendGameStateToClient(qs, clients, cl, clientID) ==
    IF clientID \in DOMAIN clients
    THEN SendMessage(qs, clients[clientID], NewGameStateMessage(Snapshot(clients, cl)))
    ELSE qs

\* GameState.broadcastGameState, entered with `writer` holding GameState.mu:
\* the RLock of its first line is granted only when no writer holds the mutex.
\* The result is the queues and whether the call returned.
broadcastGameState(qs, clients, cl, writer) ==
    IF ~RLockFree(writer) THEN [qs |-> qs, returned |-> FALSE]
    ELSE IF Snapshot(clients, cl) # {}
         THEN [qs |-> broadcastMessage(qs, clients, NewGameStateMessage(Snapshot(clients, cl)), None),
               returned |-> TRUE]
    ELSE [qs |-> qs, returned |-> TRUE]

SetQueues(qs) ==
    /\ send' = qs.send
    /\ closedBy' = qs.closedBy
    /\ closeCalls' = qs.calls
    /\ panic' = qs.panic

\* the process is alive: no goroutine has panicked and no signal has ended it
Running == panic = "" /\ proc.at = "serve"

\* -------------------------------------------------------------------- Init
InitRoster ==
    /\ pc = [c \in Conn |-> "idle"]
    /\ client = [c \in Conn |-> NewClient(c, PlayerName(c))]
    /\ gsClients = <<>>
    /\ gsWriter = None
    /\ send = [c \in Conn |-> <<>>]
    /\ closedBy = [c \in Conn |-> ""]
    /\ closeCalls = [c \in Conn |-> 0]
    /\ panic = ""
    /\ wp = [c \in Conn |-> "none"]
    /\ connClosed = [c \in Conn |-> FALSE]
    /\ sessionID = [c \in Conn |-> None]
    /\ lastStep = Step("", None, NoFrame)
    /\ sessions = <<>>
    /\ dbCalls = <<>>
    /\ proc = [at |-> "serve", dbClosed |-> FALSE]

\* ------------------------------------------------------- stream connection
\* GameServer.HandleConnection up to `go HandleClientMessages`, and the
\* goroutine's first statement, database.CreateSession (which may fail)
HandleConnection(c) ==
    /\ Running
    /\ pc[c] = "idle"
    /\ RLockFree(gsWriter)                \* GetClientCount
    /\ \E ok \in BOOLEAN :
         /\ IF ok
            THEN /\ sessions' = CreateSession(sessions, client[c].ID, "websocket")
                 /\ sessionID' = [sessionID EXCEPT ![c] = Len(sessions) + 1]
            ELSE UNCHANGED <<sessions, sessionID>>
         /\ dbCalls' = <<Call("CreateSession", client[c].ID, <<"websocket">>, ok)>>
    /\ pc' = [pc EXCEPT ![c] = "add"]
    /\ lastStep' = Step("HandleConnection", c, NoFrame)
    /\ UNCHANGED <<client, gsClients, gsWriter, send, closedBy, closeCalls, panic,
                   wp, connClosed>>
    /\ UNCHANGED <<udpVars, tally, proc, store>>

\* GameState.AddClient, then `go client.WritePump()`
AddClient(c) ==
    /\ Running
    /\ pc[c] = "add"
    /\ LockFree(gsWriter)
    /\ LET id == client[c].ID
           joinMessage == NewPlayerJoinMessage(id, client[c].Player.name)
           clients == [k \in DOMAIN gsClients \cup {id} |->
                          IF k = id THEN c ELSE gsClients[k]]
           q1 == SendMessage(Queues, c, joinMessage)
           q2 == broadcastMessage(q1, clients, joinMessage, id)
           q3 == sendGameStateToClient(q2, clients, client, id)
       IN /\ \E ok1, ok2 \in BOOLEAN :
               dbCalls' = <<Call("CreateOrUpdatePlayer", id, <<client[c].Player.score>>, ok1),
                            Call("LogEvent", id, <<"join">>, ok2)>>
          /\ gsClients' = clients
          /\ SetQueues(q3)
          /\ pc' = IF q3.panic = "" THEN [pc EXCEPT ![c] = "reading"] ELSE pc
          /\ wp' = IF q3.panic = "" THEN [wp EXCEPT ![c] = "running"] ELSE wp
    /\ lastStep' = Step("AddClient", c, NoFrame)
    /\ UNCHANGED <<client, gsWriter, connClosed, sessionID, sessions>>
    /\ UNCHANGED <<udpVars, tally, proc, store>>

\* GameState.handlePlayerAction: the in-memory effect
handlePlayerAction(cl, c, action) ==
    IF action = "pickup"
    THEN [cl EXCEPT ![c].Player.score = @ + PickupPoints]
    ELSE cl

\* GameState.handlePlayerAction: the persistence calls, with their outcomes
handlePlayerActionStore(id, action, newScore, ok1, ok2) ==
    IF action = "attack"
    THEN <<Call("LogEvent", id, <<"attack">>, ok2)>>
    ELSE IF action = "pickup"
    THEN <<Call("UpdatePlayerScore", id, <<newScore>>, ok1),
           Call("LogEvent", id, <<"pickup">>, ok2)>>
    ELSE <<>>

\* HandleMessage without the comparison of the payload's player_id
AcceptedAnyId(clients, id, m) == id \in DOMAIN clients

\* the identity check of HandleMessage: the sender is in the roster and the
\* payload's player_id is the id of the connection
Accepted(clients, id, m) == id \in DOMAIN clients /\ m.player_id = id

\* One turn of the read loop: ReadMessage returned a frame and
\* GameState.HandleMessage(client.ID, msg, sessionIDPtr) runs
HandleMessage(c, m) ==
    /\ Running
    /\ pc[c] = "reading"
    /\ ~connClosed[c]
    /\ LockFree(gsWriter)
    /\ m.type = "PlayerAction" /\ m.action = "pickup"
          => client[c].Player.score < MaxPickups * PickupPoints
    /\ LET id == client[c].ID
           accepted == Accepted(gsClients, id, m)
       IN /\ lastStep' = Step("HandleMessage", c, [type |-> m.type, player_id |-> m.player_id])
          /\ IF accepted /\ m.type = "PlayerMove"
             THEN LET cl == [client EXCEPT ![c].Player.x = m.x, ![c].Player.y = m.y]
                      moveMsg == NewPlayerMoveMessage(id, m.x, m.y)
                      q1 == broadcastMessage(Queues, gsClients, moveMsg, id)
                      r == broadcastGameState(q1, gsClients, cl, c)
                  IN /\ client' = cl
                     /\ \E ok1, ok2 \in BOOLEAN :
                          dbCalls' = <<Call("UpdatePlayerPosition", id, <<m.x, m.y>>, ok1),
                                       Call("LogEvent", id, <<"move">>, ok2)>>
                     /\ SetQueues(r.qs)
                     /\ IF r.returned \/ r.qs.panic # ""
                        THEN UNCHANGED <<pc, gsWriter>>
                        ELSE /\ pc' = [pc EXCEPT ![c] = "bgs_rlock"]
                             /\ gsWriter' = c
             ELSE IF accepted /\ m.type = "PlayerAction"
             THEN LET cl == handlePlayerAction(client, c, m.action)
                  IN /\ client' = cl
                     /\ \E ok1, ok2 \in BOOLEAN :
                          dbCalls' = handlePlayerActionStore(id, m.action, cl[c].Player.score,
                                                             ok1, ok2)
                     /\ UNCHANGED <<pc, gsWriter, send, closedBy, closeCalls, panic>>
             ELSE IF accepted /\ m.type = "Chat"
             THEN /\ SetQueues(broadcastMessage(Queues, gsClients,
                                                NewChatMessage(id, m.message), None))
                  /\ \E ok1, ok2 \in BOOLEAN :
                       dbCalls' = <<Call("SaveChatMessage", id, <<m.message>>, ok1),
                                    Call("LogEvent", id, <<"chat">>, ok2)>>
                  /\ UNCHANGED <<pc, gsWriter, client>>
             ELSE /\ dbCalls' = <<>>
                  /\ UNCHANGED <<pc, gsWriter, client, send, closedBy, closeCalls, panic>>
    /\ UNCHANGED <<gsClients, wp, connClosed, sessionID, sessions>>
    /\ UNCHANGED <<udpVars, tally, proc, store>>

\* ReadMessage returned an error: the peer closed, the network failed, or the
\* server closed the connection itself; the loop is left
ReadError(c) ==
    /\ Running
    /\ pc[c] = "reading"
    /\ pc' = [pc EXCEPT ![c] = "end_session"]
    /\ lastStep' = Step("ReadError", c, NoFrame)
    /\ dbCalls' = <<>>
    /\ UNCHANGED <<client, gsClients, gsWriter, send, closedBy, closeCalls, panic,
                   wp, connClosed, sessionID, sessions>>
    /\ UNCHANGED <<udpVars, tally, proc, store>>

\* database.EndSession(*sessionIDPtr) after the loop, skipped for a nil session
EndSession(c) ==
    /\ Running
    /\ pc[c] = "end_session"
    /\ IF sessionID[c] # None
       THEN \E ok \in BOOLEAN :
              /\ sessions' = IF ok THEN EndSessionRows(sessions, sessionID[c]) ELSE sessions
              /\ dbCalls' = <<Call("EndSession", client[c].ID, <<sessionID[c]>>, ok)>>
       ELSE /\ dbCalls' = <<>>
            /\ UNCHANGED sessions
    /\ pc' = [pc EXCEPT ![c] = "remove"]
    /\ lastStep' = Step("EndSession", c, NoFrame)
    /\ UNCHANGED <<client, gsClients, gsWriter, send, closedBy, closeCalls, panic,
                   wp, connClosed, sessionID>>
    /\ UNCHANGED <<udpVars, tally, proc, store>>

\* the deferred function of HandleClientMessages: GameState.RemoveClient,
\* then client.Conn.Close()
RemoveClient(c) ==
    /\ Running
    /\ pc[c] = "remove"
    /\ LockFree(gsWriter)
    /\ LET id == client[c].ID
       IN IF id \in DOMAIN gsClients
          THEN LET clients == [k \in DOMAIN gsClients \ {id} |-> gsClients[k]]
                   q1 == broadcastMessage(Queues, clients, NewPlayerLeaveMessage(id), None)
                   q2 == CloseSend(q1, gsClients[id])
               IN /\ gsClients' = clients
                  /\ \E ok \in BOOLEAN : dbCalls' = <<Call("LogEvent", id, <<"leave">>, ok)>>
                  /\ SetQueues(q2)
                  /\ connClosed' = IF q2.panic = "" THEN [connClosed EXCEPT ![c] = TRUE]
                                    ELSE connClosed
                  /\ pc' = IF q2.panic = "" THEN [pc EXCEPT ![c] = "done"] ELSE pc
          ELSE /\ connClosed' = [connClosed EXCEPT ![c] = TRUE]
               /\ pc' = [pc EXCEPT ![c] = "done"]
               /\ dbCalls' = <<>>
               /\ UNCHANGED <<gsClients, send, closedBy, closeCalls, panic>>
    /\ lastStep' = Step("RemoveClient", c, NoFrame)
    /\ UNCHANGED <<client, gsWriter, wp, sessionID, sessions>>
    /\ UNCHANGED <<udpVars, tally, proc, store>>

\* a WritePump that takes the newest message of the queue instead
WritePumpNewestFirst(c) ==
    /\ Running
    /\ wp[c] = "running"
    /\ IF send[c] # <<>>
       THEN /\ send' = [send EXCEPT ![c] = SubSeq(@, 1, Len(@) - 1)]
            /\ \E ok \in {TRUE, ~connClosed[c]} :
                 IF ok /\ ~connClosed[c]
                 THEN /\ lastStep' = Step("WritePump", c, send[c][Len(send[c])])
                      /\ UNCHANGED <<wp, connClosed>>
                 ELSE /\ lastStep' = Step("WritePump", c, NoFrame)
                      /\ wp' = [wp EXCEPT ![c] = "exited"]
                      /\ connClosed' = [connClosed EXCEPT ![c] = TRUE]
       ELSE /\ closedBy[c] # ""
            /\ lastStep' = Step("WritePump", c, NoFrame)
            /\ wp' = [wp EXCEPT ![c] = "exited"]
            /\ connClosed' = [connClosed EXCEPT ![c] = TRUE]
            /\ UNCHANGED send
    /\ dbCalls' = <<>>
    /\ UNCHANGED <<pc, client, gsClients, gsWriter, closedBy, closeCalls, panic,
                   sessionID, sessions>>
    /\ UNCHANGED <<udpVars, tally, proc, store>>

\* One turn of Client.WritePump: take the oldest message of the queue and
\* write it (the write fails on a closed connection), or find the queue closed and empty; on return the deferred
\* Conn.Close() runs. lastStep holds the frame that went to the peer.
WritePump(c) ==
    /\ Running
    /\ wp[c] = "running"
    /\ IF send[c] # <<>>
       THEN /\ send' = [send EXCEPT ![c] = Tail(@)]
            /\ \E ok \in {TRUE, ~connClosed[c]} :
                 IF ok /\ ~connClosed[c]
                 THEN /\ lastStep' = Step("WritePump", c, Head(send[c]))
                      /\ UNCHANGED <<wp, connClosed>>
                 ELSE /\ lastStep' = Step("WritePump", c, NoFrame)
                      /\ wp' = [wp EXCEPT ![c] = "exited"]
                      /\ connClosed' = [connClosed EXCEPT ![c] = TRUE]
       ELSE /\ closedBy[c] # ""
            /\ lastStep' = Step("WritePump", c, NoFrame)
            /\ wp' = [wp EXCEPT ![c] = "exited"]
            /\ connClosed' = [connClosed EXCEPT ![c] = TRUE]
            /\ UNCHANGED send
    /\ dbCalls' = <<>>
    /\ UNCHANGED <<pc, client, gsClients, gsWriter, closedBy, closeCalls, panic,
                   sessionID, sessions>>
    /\ UNCHANGED <<udpVars, tally, proc, store>>

NextStream ==
    \/ \E c \in Conn : HandleConnection(c)
    \/ \E c \in Conn : AddClient(c)
    \/ \E c \in Conn, m \in Inbound : HandleMessage(c, m)
    \/ \E c \in Conn : ReadError(c)
    \/ \E c \in Conn : EndSession(c)
    \/ \E c \in Conn : RemoveClient(c)
    \/ \E c \in Conn : WritePump(c)


\* ===================================================== datagram transport
NoPkt == [type |-> "none"]
NoClient == [ID |-> None]
IdleHandler == [pc |-> "idle", pkt |-> NoPkt, found |-> None, uc |-> NoClient]
IdleSweep == [pc |-> "idle", todo |-> {}, addr |-> None, seqs |-> {}, seq |-> 0,
              data |-> NoPkt]

\* datagrams a client may send (DeserializeUDPPacket accepted them)
HeartbeatPkts == [type : {"Heartbeat"}, addr : Endpoints, player_id : PlayerIds,
                  sequence : InSeqs]
AckPkts == [type : {"Ack"}, addr : Endpoints, sequence : 1..(MaxSeq + 1)]
MovePkts == [type : {"PlayerMove"}, addr : Endpoints, player_id : PlayerIds,
             x : Coords, y : Coords, sequence : InSeqs]
ActionPkts == [type : {"PlayerAction"}, addr : Endpoints, player_id : PlayerIds,
               action : Actions, sequence : InSeqs]
ChatPkts == [type : {"Chat"}, addr : Endpoints, player_id : PlayerIds,
             message : {"hi"}, sequence : InSeqs]
InPkts == HeartbeatPkts \cup AckPkts \cup MovePkts \cup ActionPkts \cup ChatPkts

NewUDPPacket(sequence, message, reliable) ==
    [sequence |-> sequence, message |-> message, reliable |-> reliable]

NewUDPClient(id, name, sessID, t) ==
    [ID |-> id, Player |-> NewPlayer(id, name), LastSeen |-> t, Sequence |-> 0,
     AckSequence |-> 0, PendingAcks |-> <<>>, SessionID |-> sessID]

\* UDPClient.IsTimeout
IsTimeout(uc, t) == t - uc.LastSeen > ClientTimeout

\* UDPClient.GetTimeoutPackets
GetTimeoutPackets(uc, t) ==
    {s \in DOMAIN uc.PendingAcks : t - uc.PendingAcks[s].Timestamp > ResendAfter}

\* UDPClient.AddPendingAck
AddPendingAck(uc, packet, t) ==
    [uc EXCEPT !.PendingAcks =
        [s \in DOMAIN uc.PendingAcks \cup {packet.sequence} |->
            IF s = packet.sequence THEN [Packet |-> packet, Timestamp |-> t]
            ELSE uc.PendingAcks[s]]]

\* UDPClient.RemovePendingAck
RemovePendingAck(uc, sequence) ==
    [uc EXCEPT !.PendingAcks = [s \in DOMAIN uc.PendingAcks \ {sequence} |-> uc.PendingAcks[s]]]

\* UDPClient.UpdatePosition
UpdatePosition(uc, x, y, t) ==
    [uc EXCEPT !.Player.x = x, !.Player.y = y, !.LastSeen = t]

\* UDPClient.AddScore
AddScore(uc, points) == [uc EXCEPT !.Player.score = @ + points]

\* The table and the socket as one value, threaded through a handler.
Table == [clients |-> ugsClients, wire |-> wire]

WriteToUDP(st, addr, packet) ==
    [st EXCEPT !.wire = Append(@, [to |-> addr, packet |-> packet])]

\* UDPGameServer.sendAck
sendAck(st, addr, sequence) ==
    WriteToUDP(st, addr, NewUDPPacket(0, NewAckMessage(sequence), FALSE))

\* the body of the loops of broadcastReliable and sendGameStateToClient:
\* NextSequence, AddPendingAck, WriteToUDP
SendReliable(st, addr, message, t) ==
    LET uc == st.clients[addr]
        sequence == uc.Sequence + 1
        packet == NewUDPPacket(sequence, message, TRUE)
        st1 == [st EXCEPT !.clients[addr] =
                   AddPendingAck([uc EXCEPT !.Sequence = sequence], packet, t)]
    IN WriteToUDP(st1, addr, packet)

RECURSIVE ReliableToAll(_, _, _, _)
ReliableToAll(st, targets, message, t) ==
    IF targets = {} THEN st
    ELSE LET a == CHOOSE e \in targets : TRUE
         IN ReliableToAll(SendReliable(st, a, message, t), targets \ {a}, message, t)

RECURSIVE UnreliableToAll(_, _, _)
UnreliableToAll(st, targets, message) ==
    IF targets = {} THEN st
    ELSE LET a == CHOOSE e \in targets : TRUE
         IN UnreliableToAll(WriteToUDP(st, a, NewUDPPacket(0, message, FALSE)),
                            targets \ {a}, message)

\* UDPGameServer.broadcastReliable, entered with `writer` holding
\* UDPGameServer.mu (None: nobody): its RLock is granted only when no writer
\* holds the mutex. The result is the table and whether the call returned.
broadcastReliable(st, writer, message, exclude, t) ==
    IF ~RLockFree(writer) THEN [st |-> st, returned |-> FALSE]
    ELSE [st |-> ReliableToAll(st, DOMAIN st.clients \ {exclude}, message, t),
          returned |-> TRUE]

\* UDPGameServer.broadcastUnreliable
broadcastUnreliable(st, writer, message, exclude) ==
    IF ~RLockFree(writer) THEN [st |-> st, returned |-> FALSE]
    ELSE [st |-> UnreliableToAll(st, DOMAIN st.clients \ {exclude}, message),
          returned |-> TRUE]

\* UDPGameServer.sendGameStateToClient
sendGameStateToClientUDP(st, writer, addr, t) ==
    IF ~RLockFree(writer) THEN [st |-> st, returned |-> FALSE]
    ELSE LET players == {st.clients[a].Player : a \in DOMAIN st.clients}
         IN [st |-> IF addr \in DOMAIN st.clients
                    THEN SendReliable(st, addr, NewGameStateMessage(players), t)
                    ELSE st,
             returned |-> TRUE]

InitTable ==
    /\ ugsClients = <<>>
    /\ clientByID = <<>>
    /\ ugsWriter = None
    /\ ugsReaders = {}
    /\ hd = [h \in Handlers |-> IdleHandler]
    /\ rel = IdleSweep
    /\ wire = <<>>
    /\ now = 0
    /\ admits = [e \in Endpoints |-> 0]

\* NewPlayer: Score 0
InitTally ==
    tally = [score |-> [hi |-> 0, lo |-> 0], before |-> [hi |-> 0, lo |-> 0],
             action |-> "", steps |-> 0]

\* the tables are empty and nobody is alive in memory
NoCall == [op |-> "", id |-> None, before |-> <<>>, at |-> 0]
InitStore ==
    store = [players |-> <<>>, live |-> <<>>, rows |-> <<>>, clock |-> 0,
             last |-> NoCall, steps |-> 0]

Init == InitRoster /\ InitTable /\ InitTally /\ InitStore

\* UDPGameServer.Run: a datagram was read and decoded, `go handlePacket`
Run(h, pkt) ==
    /\ hd[h].pc = "idle"
    /\ hd' = [hd EXCEPT ![h] = [IdleHandler EXCEPT !.pc = "start", !.pkt = pkt]]
    /\ UNCHANGED <<ugsClients, clientByID, ugsWriter, ugsReaders, rel, wire, now, sessions, admits>>
    /\ dbCalls' = <<>>
    /\ UNCHANGED <<streamVars, tally, proc, store>>

\* handleHeartbeat taking the mutex shared (RLock) instead of exclusive
handleHeartbeatRLock(h) ==
    /\ hd[h].pc = "start"
    /\ hd[h].pkt.type = "Heartbeat"
    /\ RLockFree(ugsWriter)
    /\ ugsReaders' = ugsReaders \cup {h}
    /\ hd' = [hd EXCEPT ![h].pc = "check"]
    /\ UNCHANGED <<ugsClients, clientByID, ugsWriter, rel, wire, now, sessions, admits>>
    /\ dbCalls' = <<>>
    /\ UNCHANGED <<streamVars, tally, proc, store>>

\* handleHeartbeat, line 1: ugs.mu.Lock(), held until the handler returns
handleHeartbeatLock(h) ==
    /\ hd[h].pc = "start"
    /\ hd[h].pkt.type = "Heartbeat"
    /\ LockFree(ugsWriter)
    /\ ugsReaders = {}
    /\ ugsWriter' = h
    /\ hd' = [hd EXCEPT ![h].pc = "check"]
    /\ UNCHANGED <<ugsClients, clientByID, ugsReaders, rel, wire, now, sessions, admits>>
    /\ dbCalls' = <<>>
    /\ UNCHANGED <<streamVars, tally, proc, store>>

\* is this a new client?
IsNewClient(clients, addr) == addr \notin DOMAIN clients

\* handleHeartbeat under the lock, up to the inserts. A new endpoint: the
\* session is created, the client is allocated, the player is saved and the
\* join event is logged (each call may fail). A known endpoint: last seen and
\* the received sequence are updated, the Ack is sent and the handler returns.
handleHeartbeat(h) ==
    /\ hd[h].pc = "check"
    /\ LET addr == hd[h].pkt.addr
           playerID == hd[h].pkt.player_id
           sequence == hd[h].pkt.sequence
       IN IF IsNewClient(ugsClients, addr)
          THEN /\ \E ok, ok1, ok2 \in BOOLEAN :
                    LET sessID == IF ok THEN Len(sessions) + 1 ELSE None
                        uc == NewUDPClient(playerID, PlayerName(playerID), sessID, now)
                    IN /\ sessions' = IF ok THEN CreateSession(sessions, playerID, "udp")
                                      ELSE sessions
                       /\ dbCalls' = <<Call("CreateSession", playerID, <<"udp">>, ok),
                                       Call("CreateOrUpdatePlayer", playerID,
                                            <<uc.Player.score>>, ok1),
                                       Call("LogEvent", playerID, <<"join">>, ok2)>>
                       /\ hd' = [hd EXCEPT ![h].pc = "admit", ![h].uc = uc]
               /\ UNCHANGED <<ugsClients, wire, ugsWriter>>
          ELSE LET clients == [ugsClients EXCEPT ![addr].LastSeen = now,
                                                 ![addr].AckSequence = sequence]
               IN /\ ugsClients' = clients
                  /\ wire' = sendAck([clients |-> clients, wire |-> wire], addr, sequence).wire
                  /\ ugsWriter' = IF ugsWriter = h THEN None ELSE ugsWriter
                  /\ hd' = [hd EXCEPT ![h] = IdleHandler]
                  /\ dbCalls' = <<>>
                  /\ UNCHANGED sessions
    /\ UNCHANGED <<clientByID, ugsReaders, rel, now, admits>>
    /\ UNCHANGED <<streamVars, tally, proc, store>>

\* The admission branch of handleHeartbeat from the inserts on: both indices,
\* broadcastReliable(join, exclude the new endpoint), sendGameStateToClient,
\* sendAck, and the deferred Unlock. The two calls take the RLock of the
\* mutex: the handler goes on only if it is granted.
Admit(h) ==
    /\ hd[h].pc = "admit"
    /\ LET addr == hd[h].pkt.addr
           playerID == hd[h].pkt.player_id
           sequence == hd[h].pkt.sequence
           joinMsg == NewPlayerJoinMessage(playerID, PlayerName(playerID))
           clients == [a \in DOMAIN ugsClients \cup {addr} |->
                          IF a = addr THEN hd[h].uc ELSE ugsClients[a]]
           byID == [p \in DOMAIN clientByID \cup {playerID} |->
                       IF p = playerID THEN addr ELSE clientByID[p]]
           st0 == [clients |-> clients, wire |-> wire]
           r1 == broadcastReliable(st0, ugsWriter, joinMsg, addr, now)
           r2 == sendGameStateToClientUDP(r1.st, ugsWriter, addr, now)
           st3 == sendAck(r2.st, addr, sequence)
       IN /\ clientByID' = byID
          /\ admits' = [admits EXCEPT ![addr] = @ + 1]
          /\ IF r1.returned /\ r2.returned
             THEN /\ ugsClients' = st3.clients
                  /\ wire' = st3.wire
                  /\ ugsWriter' = IF ugsWriter = h THEN None ELSE ugsWriter
                  /\ hd' = [hd EXCEPT ![h] = IdleHandler]
             ELSE /\ ugsClients' = clients
                  /\ hd' = [hd EXCEPT ![h].pc = "broadcastReliable_RLock"]
                  /\ UNCHANGED <<wire, ugsWriter>>
    /\ dbCalls' = <<>>
    /\ UNCHANGED <<ugsReaders, rel, now, sessions>>
    /\ UNCHANGED <<streamVars, tally, proc, store>>

\* a lookup that takes the packet's word for the player when the endpoint is
\* not in the table
LookupTrusting(h) ==
    /\ hd[h].pc = "start"
    /\ hd[h].pkt.type # "Heartbeat"
    /\ RLockFree(ugsWriter)
    /\ hd' = [hd EXCEPT ![h].pc = "body",
                        ![h].found = IF hd[h].pkt.addr \in DOMAIN ugsClients
                                     THEN ugsClients[hd[h].pkt.addr].ID
                                     ELSE IF hd[h].pkt.type = "Ack" THEN None
                                     ELSE hd[h].pkt.player_id]
    /\ dbCalls' = <<>>
    /\ UNCHANGED <<ugsClients, clientByID, ugsWriter, ugsReaders, rel, wire, now, sessions, admits>>
    /\ UNCHANGED <<streamVars, tally, proc, store>>

\* The first three lines of handleAck, handlePlayerMove, handlePlayerAction
\* and handleChat: RLock, look the endpoint up, RUnlock
Lookup(h) ==
    /\ hd[h].pc = "start"
    /\ hd[h].pkt.type # "Heartbeat"
    /\ RLockFree(ugsWriter)
    /\ hd' = [hd EXCEPT ![h].pc = "body",
                        ![h].found = IF hd[h].pkt.addr \in DOMAIN ugsClients
                                     THEN ugsClients[hd[h].pkt.addr].ID ELSE None]
    /\ dbCalls' = <<>>
    /\ UNCHANGED <<ugsClients, clientByID, ugsWriter, ugsReaders, rel, wire, now, sessions, admits>>
    /\ UNCHANGED <<streamVars, tally, proc, store>>

\* what the handler does with the client it found (id is the ID of that
\* client), up to its broadcast: the table, whether the score is still to be
\* persisted, and whether a broadcast follows.
\* A client evicted since the lookup is no longer part of the table: the
\* writes to it are not seen, the datagrams are still sent.
Body(pkt, id, st, t) ==
    LET addr == pkt.addr
        live == addr \in DOMAIN st.clients /\ st.clients[addr].ID = id
        moved == IF live
                 THEN [st EXCEPT !.clients[addr] = UpdatePosition(@, pkt.x, pkt.y, t)]
                 ELSE st
        scored == IF live
                  THEN [st EXCEPT !.clients[addr] = AddScore(@, PickupPoints)]
                  ELSE st
    IN IF pkt.type = "Ack"
       THEN [st |-> IF live
                    THEN [st EXCEPT !.clients[addr] = RemovePendingAck(@, pkt.sequence)]
                    ELSE st,
             persist |-> FALSE, bcast |-> FALSE]
       ELSE IF id # pkt.player_id THEN [st |-> st, persist |-> FALSE, bcast |-> FALSE]
       ELSE IF pkt.type = "PlayerMove"
       THEN [st |-> sendAck(moved, addr, pkt.sequence), persist |-> FALSE, bcast |-> TRUE]
       ELSE IF pkt.type = "PlayerAction" /\ pkt.action = "pickup"
       THEN [st |-> scored, persist |-> TRUE, bcast |-> FALSE]
       ELSE IF pkt.type = "PlayerAction"
       THEN [st |-> sendAck(st, addr, pkt.sequence), persist |-> FALSE, bcast |-> FALSE]
       ELSE [st |-> sendAck(st, addr, pkt.sequence), persist |-> FALSE, bcast |-> TRUE]

\* the persistence calls of that step, with their outcomes
BodyStore(pkt, id, ok1, ok2) ==
    IF pkt.type = "Ack" \/ id # pkt.player_id THEN <<>>
    ELSE IF pkt.type = "PlayerMove"
    THEN <<Call("UpdatePlayerPosition", id, <<pkt.x, pkt.y>>, ok1)>>
         \o (IF pkt.sequence % MoveLogEvery = 0
             THEN <<Call("LogEvent", id, <<"move">>, ok2)>> ELSE <<>>)
    ELSE IF pkt.type = "PlayerAction"
    THEN IF pkt.action = "attack" THEN <<Call("LogEvent", id, <<"attack">>, ok2)>> ELSE <<>>
    ELSE <<Call("SaveChatMessage", id, <<pkt.message>>, ok1),
           Call("LogEvent", id, <<"chat">>, ok2)>>

\* the broadcast that ends handlePlayerMove and handleChat
Relay(pkt, st, t) ==
    IF pkt.type = "PlayerMove"
    THEN broadcastUnreliable(st, ugsWriter,
                             NewPlayerMoveMessage(pkt.player_id, pkt.x, pkt.y), pkt.addr)
    ELSE broadcastReliable(st, ugsWriter,
                           NewChatMessage(pkt.player_id, pkt.message), pkt.addr, t)

\* The rest of handleAck, handlePlayerMove, handlePlayerAction and handleChat
\* after the lookup, in steps:
\*   body       the work on the client found, up to the broadcast; for a
\*              pickup up to and including client.AddScore(10)
\*   score      pickup: newScore := client.Player.Score (read without the
\*              client's lock), UpdatePlayerScore, LogEvent, sendAck
\*   broadcast  the broadcast, which waits for the RLock
Handle(h) ==
    /\ hd[h].pc \in {"body", "score", "broadcast"}
    /\ hd[h].pc = "broadcast" => RLockFree(ugsWriter)
    /\ IF hd[h].pc = "body"
       THEN IF hd[h].found = None
            THEN /\ hd' = [hd EXCEPT ![h] = IdleHandler]
                 /\ dbCalls' = <<>>
                 /\ UNCHANGED <<ugsClients, wire>>
            ELSE LET r == Body(hd[h].pkt, hd[h].found, Table, now)
                 IN /\ ugsClients' = r.st.clients
                    /\ wire' = r.st.wire
                    /\ \E ok1, ok2 \in BOOLEAN :
                         dbCalls' = BodyStore(hd[h].pkt, hd[h].found, ok1, ok2)
                    /\ hd' = [hd EXCEPT ![h] = IF r.persist THEN [@ EXCEPT !.pc = "score"]
                                                ELSE IF r.bcast THEN [@ EXCEPT !.pc = "broadcast"]
                                                ELSE IdleHandler]
       ELSE IF hd[h].pc = "score"
       THEN LET addr == hd[h].pkt.addr
                newScore == IF addr \in DOMAIN ugsClients /\ ugsClients[addr].ID = hd[h].found
                            THEN ugsClients[addr].Player.score
                            ELSE PickupPoints
            IN /\ \E ok1, ok2 \in BOOLEAN :
                    dbCalls' = <<Call("UpdatePlayerScore", hd[h].found, <<newScore>>, ok1),
                                 Call("LogEvent", hd[h].found, <<"pickup">>, ok2)>>
               /\ wire' = sendAck(Table, addr, hd[h].pkt.sequence).wire
               /\ hd' = [hd EXCEPT ![h] = IdleHandler]
               /\ UNCHANGED ugsClients
       ELSE LET r == Relay(hd[h].pkt, Table, now)
            IN /\ ugsClients' = r.st.clients
               /\ wire' = r.st.wire
               /\ hd' = [hd EXCEPT ![h] = IdleHandler]
               /\ dbCalls' = <<>>
    /\ UNCHANGED <<clientByID, ugsWriter, ugsReaders, rel, now, sessions, admits>>
    /\ UNCHANGED <<streamVars, tally, proc, store>>

RECURSIVE HeartbeatToAll(_, _)
HeartbeatToAll(st, targets) ==
    IF targets = {} THEN st
    ELSE LET a == CHOOSE e \in targets : TRUE
             heartbeat == NewHeartbeatMessage(st.clients[a].ID, 0)
         IN HeartbeatToAll(WriteToUDP(st, a, NewUDPPacket(0, heartbeat, FALSE)),
                           targets \ {a})

\* One tick of startHeartbeatTask
startHeartbeatTask ==
    /\ RLockFree(ugsWriter)
    /\ wire' = HeartbeatToAll(Table, DOMAIN ugsClients).wire
    /\ UNCHANGED <<ugsClients, clientByID, ugsWriter, ugsReaders, hd, rel, now, sessions, admits>>
    /\ dbCalls' = <<>>
    /\ UNCHANGED <<streamVars, tally, proc, store>>

\* One tick of startCleanupTask
startCleanupTask ==
    /\ LockFree(ugsWriter)
    /\ ugsReaders = {}
    /\ LET toRemove == {a \in DOMAIN ugsClients : IsTimeout(ugsClients[a], now)}
           clientIDs == {ugsClients[a].ID : a \in toRemove}
       IN /\ ugsClients' = [a \in DOMAIN ugsClients \ toRemove |-> ugsClients[a]]
          /\ clientByID' = [p \in DOMAIN clientByID \ clientIDs |-> clientByID[p]]
    /\ UNCHANGED <<ugsWriter, ugsReaders, hd, rel, wire, now, sessions, admits>>
    /\ dbCalls' = <<>>
    /\ UNCHANGED <<streamVars, tally, proc, store>>

\* startReliabilityTask, one step of a tick's sweep:
\*   idle    RLock; an empty table ends the sweep at once (RUnlock)
\*   client  the next client of the range loop: GetTimeoutPackets
\*   check   the next timed out sequence: is it still pending?
\*   send    WriteToUDP of the packet read, then the timestamp is refreshed
startReliabilityTask ==
    /\ rel.pc = "idle" => RLockFree(ugsWriter)
    /\ IF rel.pc = "idle"
       THEN /\ IF DOMAIN ugsClients = {}
               THEN UNCHANGED <<rel, ugsReaders>>
               ELSE /\ rel' = [IdleSweep EXCEPT !.pc = "client", !.todo = DOMAIN ugsClients]
                    /\ ugsReaders' = ugsReaders \cup {RelTask}
            /\ UNCHANGED <<ugsClients, wire>>
       ELSE IF rel.pc = "client"
       THEN /\ IF rel.todo = {}
               THEN /\ rel' = IdleSweep
                    /\ ugsReaders' = ugsReaders \ {RelTask}
               ELSE \E a \in rel.todo :
                      /\ rel' = [rel EXCEPT !.pc = "check", !.todo = @ \ {a}, !.addr = a,
                                            !.seqs = GetTimeoutPackets(ugsClients[a], now)]
                      /\ UNCHANGED ugsReaders
            /\ UNCHANGED <<ugsClients, wire>>
       ELSE IF rel.pc = "check"
       THEN /\ IF rel.seqs = {}
               THEN rel' = [rel EXCEPT !.pc = "client"]
               ELSE \E s \in rel.seqs :
                      LET pending == ugsClients[rel.addr].PendingAcks
                      IN rel' = [rel EXCEPT !.seqs = @ \ {s}, !.seq = s,
                                            !.data = IF s \in DOMAIN pending
                                                     THEN pending[s].Packet ELSE NoPkt,
                                            !.pc = IF s \in DOMAIN pending
                                                   THEN "send" ELSE "check"]
            /\ UNCHANGED <<ugsClients, wire, ugsReaders>>
       ELSE LET uc == ugsClients[rel.addr]
            IN /\ wire' = Append(wire, [to |-> rel.addr, packet |-> rel.data])
               /\ ugsClients' = IF rel.seq \in DOMAIN uc.PendingAcks
                                THEN [ugsClients EXCEPT
                                        ![rel.addr].PendingAcks[rel.seq].Timestamp = now]
                                ELSE ugsClients
               /\ rel' = [rel EXCEPT !.pc = "check"]
               /\ UNCHANGED ugsReaders
    /\ UNCHANGED <<clientByID, ugsWriter, hd, now, sessions, admits>>
    /\ dbCalls' = <<>>
    /\ UNCHANGED <<streamVars, tally, proc, store>>

\* time passes
Tick ==
    /\ now < MaxTicks * ClockStep
    /\ now' = now + ClockStep
    /\ UNCHANGED <<ugsClients, clientByID, ugsWriter, ugsReaders, hd, rel, wire, sessions, admits>>
    /\ dbCalls' = <<>>
    /\ UNCHANGED <<streamVars, tally, proc, store>>

NextUDP ==
    \/ \E h \in Handlers, pkt \in InPkts : Run(h, pkt)
    \/ \E h \in Handlers : handleHeartbeatLock(h)
    \/ \E h \in Handlers : handleHeartbeat(h)
    \/ \E h \in Handlers : Admit(h)
    \/ \E h \in Handlers : Lookup(h)
    \/ \E h \in Handlers : Handle(h)
    \/ startHeartbeatTask
    \/ startCleanupTask
    \/ startReliabilityTask
    \/ Tick

\* ------------------------------------------------------------------- main
\* SIGINT or SIGTERM arrives while main is in http.ListenAndServe. main
\* installs no handler (no signal.Notify), so the Go runtime ends the process
\* at once: no goroutine runs any further and the deferred database.Close()
\* of main does not run.
Signal ==
    /\ proc.at = "serve"
    /\ proc' = [proc EXCEPT !.at = "killed"]
    /\ lastStep' = Step("Signal", None, NoFrame)
    /\ dbCalls' = <<>>
    /\ UNCHANGED <<pc, client, gsClients, gsWriter, send, closedBy, closeCalls, panic,
                   wp, connClosed, sessionID, sessions>>
    /\ UNCHANGED <<udpVars, tally, store>>

NextMain ==
    \/ NextStream
    \/ Signal

\* ======================================================= Player.Score, uint32
\* Go's uint32 addition (Client.AddScore, UDPClient.AddScore: Score += points)
\* on the limbs: the carry out of the high limb is lost
AddU32(s, points) ==
    LET lo == s.lo + points
    IN [lo |-> lo % Limb, hi |-> (s.hi + lo \div Limb) % Limb]

\* the score after k pickups of a new player (NewPlayer: Score 0)
RECURSIVE Pickups(_)
Pickups(k) == IF k = 0 THEN [hi |-> 0, lo |-> 0] ELSE AddU32(Pickups(k - 1), PickupPoints)

\* The scores a player can hold that are drawn as inputs: the first
\* multiples of 10, and the last multiples of 10 below 2^32 (the largest is
\* 4294967290 = 65535 * 65536 + 65530, held after 429496729 pickups)
ScoreInputs ==
    {Pickups(k) : k \in 0..MaxScoreSteps}
    \cup {[hi |-> Limb - 1, lo |-> Limb - 6 - PickupPoints * k] : k \in 0..MaxScoreSteps}

\* a player holds one of the drawn scores
InitScore ==
    /\ InitRoster
    /\ InitTable
    /\ InitStore
    /\ \E s \in ScoreInputs :
          tally = [score |-> s, before |-> s, action |-> "", steps |-> 0]

\* the switch of handlePlayerAction (both transports) on the score
ApplyAction(action) ==
    /\ tally.steps < MaxTallySteps
    /\ tally' = [score |-> IF action = "pickup" THEN AddU32(tally.score, PickupPoints)
                          ELSE tally.score,
                 before |-> tally.score,
                 action |-> action,
                 steps |-> tally.steps + 1]
    /\ UNCHANGED <<streamVars, dbVars, udpVars, proc, store>>

NextScore == \E action \in Actions : ApplyAction(action)

\* ================================================ the tables of the database
\* a Database.EndSession without `AND session_end IS NULL`
DbEndSessionAlways(rows, sid, t) ==
    [i \in DOMAIN rows |-> IF i = sid THEN [rows[i] EXCEPT !.session_end = t] ELSE rows[i]]

\* Database.EndSession on game_sessions with its timestamps:
\* UPDATE game_sessions SET session_end = datetime('now')
\* WHERE id = ? AND session_end IS NULL
DbEndSession(rows, sid, t) ==
    [i \in DOMAIN rows |->
        IF i = sid /\ rows[i].session_end = NullTime
        THEN [rows[i] EXCEPT !.session_end = t]
        ELSE rows[i]]

\* Database.CreateOrUpdatePlayer: INSERT ... ON CONFLICT(id) DO UPDATE SET
\* name, x, y, health, score = excluded.*
DbCreateOrUpdatePlayer(players, player) ==
    [i \in DOMAIN players \cup {player.id} |-> IF i = player.id THEN player ELSE players[i]]

\* Database.UpdatePlayerScore: UPDATE players SET score = ? WHERE id = ?
DbUpdatePlayerScore(players, id, score) ==
    [i \in DOMAIN players |-> IF i = id THEN [players[i] EXCEPT !.score = score] ELSE players[i]]

\* Database.UpdatePlayerPosition: UPDATE players SET x = ?, y = ? WHERE id = ?
DbUpdatePlayerPosition(players, id, x, y) ==
    [i \in DOMAIN players |->
        IF i = id THEN [players[i] EXCEPT !.x = x, !.y = y] ELSE players[i]]

\* ---- EndSession as a function of the table
\* The session tables drawn: one to MaxRows sessions, each still open or
\* ended at time 1; the clock stands at 2.
InitSession ==
    /\ InitRoster
    /\ InitTable
    /\ InitTally
    /\ \E n \in 1..MaxRows :
         \E ends \in [1..n -> {NullTime, 1}] :
            store = [players |-> <<>>, live |-> <<>>,
                     rows |-> [i \in 1..n |-> [session_end |-> ends[i]]],
                     clock |-> 2, last |-> NoCall, steps |-> 0]

\* database.EndSession(sid), for the id of a row or of no row
EndSessionCall(sid) ==
    /\ store.steps < MaxStoreSteps
    /\ store' = [store EXCEPT !.rows = DbEndSession(@, sid, store.clock),
                              !.last = [op |-> "EndSession", id |-> sid,
                                        before |-> store.rows, at |-> store.clock],
                              !.steps = @ + 1]
    /\ UNCHANGED <<streamVars, dbVars, udpVars, tally, proc>>

\* datetime('now') moves on
StoreTick ==
    /\ store.steps < MaxStoreSteps
    /\ store' = [store EXCEPT !.clock = @ + 1, !.steps = @ + 1]
    /\ UNCHANGED <<streamVars, dbVars, udpVars, tally, proc>>

NextSession ==
    \/ \E sid \in 1..(MaxRows + 1) : EndSessionCall(sid)
    \/ StoreTick

\* ---- the players table next to the players alive in memory
\* A player is admitted under the id it comes with (AddClient: the id of the
\* connection; handleHeartbeat: the player_id of the Heartbeat): NewClient or
\* NewUDPClient make a NewPlayer and CreateOrUpdatePlayer saves it.
Admission(id) ==
    /\ store.steps < MaxStoreSteps
    /\ id \notin DOMAIN store.live
    /\ LET player == NewPlayer(id, PlayerName(id))
       IN \E ok \in BOOLEAN :
            store' = [store EXCEPT
                        !.live = [i \in DOMAIN @ \cup {id} |-> IF i = id THEN player ELSE @[i]],
                        !.players = IF ok THEN DbCreateOrUpdatePlayer(@, player) ELSE @,
                        !.last = [op |-> "Admission", id |-> id,
                                  before |-> store.players, at |-> store.clock],
                        !.steps = @ + 1]
    /\ UNCHANGED <<streamVars, dbVars, udpVars, tally, proc>>

\* handlePlayerAction "pickup" of a player alive in memory: AddScore(10) and
\* UpdatePlayerScore with the new score
Pickup(id) ==
    /\ store.steps < MaxStoreSteps
    /\ id \in DOMAIN store.live
    /\ store.live[id].score < MaxPickups * PickupPoints
    /\ LET newScore == store.live[id].score + PickupPoints
       IN \E ok \in BOOLEAN :
            store' = [store EXCEPT
                        !.live[id].score = newScore,
                        !.players = IF ok THEN DbUpdatePlayerScore(@, id, newScore) ELSE @,
                        !.last = [op |-> "Pickup", id |-> id,
                                  before |-> store.players, at |-> store.clock],
                        !.steps = @ + 1]
    /\ UNCHANGED <<streamVars, dbVars, udpVars, tally, proc>>

\* an accepted PlayerMove of a player alive in memory: UpdatePosition and
\* UpdatePlayerPosition
MoveTo(id, x, y) ==
    /\ store.steps < MaxStoreSteps
    /\ id \in DOMAIN store.live
    /\ \E ok \in BOOLEAN :
         store' = [store EXCEPT
                     !.live[id].x = x, !.live[id].y = y,
                     !.players = IF ok THEN DbUpdatePlayerPosition(@, id, x, y) ELSE @,
                     !.last = [op |-> "MoveTo", id |-> id,
                               before |-> store.players, at |-> store.clock],
                     !.steps = @ + 1]
    /\ UNCHANGED <<streamVars, dbVars, udpVars, tally, proc>>

\* the player leaves the live roster (RemoveClient after a disconnect, the
\* sweep of startCleanupTask, or the end of the process): no call touches
\* the players table
Leave(id) ==
    /\ store.steps < MaxStoreSteps
    /\ id \in DOMAIN store.live
    /\ store' = [store EXCEPT
                    !.live = [i \in DOMAIN @ \ {id} |-> @[i]],
                    !.last = [op |-> "Leave", id |-> id,
                              before |-> store.players, at |-> store.clock],
                    !.steps = @ + 1]
    /\ UNCHANGED <<streamVars, dbVars, udpVars, tally, proc>>

NextPlayers ==
    \/ \E id \in PlayerIds : Admission(id)
    \/ \E id \in PlayerIds : Pickup(id)
    \/ \E id \in PlayerIds, x, y \in Coords : MoveTo(id, x, y)
    \/ \E id \in PlayerIds : Leave(id)

\* ---------------------------------------------------------- specifications
SpecStream == Init /\ [][NextStream]_vars
SpecUDP == Init /\ [][NextUDP]_vars
SpecScore == InitScore /\ [][NextScore]_vars
SpecMain == Init /\ [][NextMain]_vars
SpecSession == InitSession /\ [][NextSession]_vars
SpecPlayers == Init /\ [][NextPlayers]_vars


\* ------------------------------------------------------------------ claims
Last(q) == q[Len(q)]

\* C1: HandleMessage for a PlayerMove that carries the sender's own id
\* returns (no panic aside): the roster entry has the new x,y, GameState.mu is
\* free again and the read loop goes on; every other roster client whose
\* queue is still open holds PlayerMove and then GameState as its last two
\* messages, and the sender's open queue ends with GameState.
C1_MoveHandledAndLockReleased ==
    [][\A c \in Conn, m \in InboundMoves :
         (/\ HandleMessage(c, m)
          /\ client[c].ID \in DOMAIN gsClients
          /\ m.player_id = client[c].ID
          /\ panic' = "")
         => /\ client'[c].Player.x = m.x
            /\ client'[c].Player.y = m.y
            /\ gsWriter' = None
            /\ pc'[c] = "reading"
            /\ \A d \in Targets(gsClients, None) :
                 closedBy'[d] = ""
                 => /\ Len(send'[d]) >= 1
                    /\ Last(send'[d]) = NewGameStateMessage(Snapshot(gsClients, client'))
                    /\ d # c => /\ Len(send'[d]) >= 2
                                /\ send'[d][Len(send'[d]) - 1]
                                     = NewPlayerMoveMessage(client[c].ID, m.x, m.y)
      ]_vars

\* C2: the admission of a new endpoint by handleHeartbeat completes: the
\* endpoint is in both indices, a reliable PlayerJoin went to every endpoint
\* registered before (none to the new one), then a reliable GameState and
\* last Ack(s) went to the new endpoint, and UDPGameServer.mu is free again.
C2_AdmissionCompletes ==
    [][\A h \in Handlers :
         Admit(h)
         => LET addr == hd[h].pkt.addr
                playerID == hd[h].pkt.player_id
                others == DOMAIN ugsClients \ {addr}
                n == Len(wire)
                k == Cardinality(others)
            IN /\ addr \in DOMAIN ugsClients'
               /\ playerID \in DOMAIN clientByID'
               /\ clientByID'[playerID] = addr
               /\ ugsWriter' = None
               /\ hd'[h].pc = "idle"
               /\ Len(wire') = n + k + 2
               /\ \A a \in others :
                    \E i \in (n + 1)..(n + k) :
                       /\ wire'[i].to = a
                       /\ wire'[i].packet.reliable
                       /\ wire'[i].packet.message.type = "PlayerJoin"
               /\ wire'[n + k + 1].to = addr
               /\ wire'[n + k + 1].packet.reliable
               /\ wire'[n + k + 1].packet.message.type = "GameState"
               /\ wire'[n + k + 2] =
                    [to |-> addr,
                     packet |-> NewUDPPacket(0, NewAckMessage(hd[h].pkt.sequence), FALSE)]
      ]_vars

\* C3: the process never panics on a client's queue: close(Client.Send) is
\* called at most once per client and no SendMessage reaches a closed queue.
C3_QueueClosedOnceNoSendAfterClose ==
    /\ panic = ""
    /\ \A c \in Conn : closeCalls[c] <= 1

\* C4: a connection whose queue SendMessage closed on overflow is torn down
\* (out of the roster) with the server still running for the other clients.
C4_OverflowEndsOnlyThatConnection ==
    \A d \in Conn :
        (closedBy[d] = "overflow" /\ pc[d] # "idle" /\ client[d].ID \notin DOMAIN gsClients)
        => panic = ""

\* C9: one admission per endpoint at a time: a handler that has allocated the
\* session and the client record of a new endpoint finds the table still
\* without that endpoint when it inserts, and no other handler is admitting
\* the same endpoint; so concurrent first Heartbeats of one endpoint lead to
\* one client record, one session and one PlayerJoin broadcast.
C9_OneAdmissionPerEndpoint ==
    \A h \in Handlers :
        hd[h].pc = "admit"
        => /\ hd[h].pkt.addr \notin DOMAIN ugsClients
           /\ \A g \in Handlers \ {h} :
                hd[g].pc = "admit" => hd[g].pkt.addr # hd[h].pkt.addr

\* C9 witness: two first Heartbeats of one endpoint are being handled at the
\* same time; one handler has inserted the client, the other one waits
C9_Witness ==
    \E h, g \in Handlers :
        /\ h # g
        /\ hd[h].pkt.type = "Heartbeat"
        /\ hd[g].pkt.type = "Heartbeat"
        /\ hd[h].pkt.addr = hd[g].pkt.addr
        /\ hd[h].pc = "broadcastReliable_RLock"
        /\ hd[g].pc = "start"
        /\ admits[hd[h].pkt.addr] = 1
        /\ hd[h].pkt.addr \in DOMAIN ugsClients

\* C11: a registered datagram client whose last_seen is more than 30 s old
\* can be removed: the sweeper can take UDPGameServer.mu, or whoever holds the
\* mutex is able to go on and release it.
C11_TimedOutClientCanBeSwept ==
    \A a \in DOMAIN ugsClients :
        IsTimeout(ugsClients[a], now)
        => \/ ENABLED startCleanupTask
           \/ \E h \in Handlers : ugsWriter = h /\ ENABLED (handleHeartbeat(h) \/ Admit(h))
           \/ ugsReaders # {} /\ ENABLED startReliabilityTask


\* Reachability of the datagram transport: the first admission keeps
\* UDPGameServer.mu locked, so the table never holds a second client and the
\* server never writes a datagram.
UDPNeverSends ==
    /\ wire = <<>>
    /\ Cardinality(DOMAIN ugsClients) <= 1
    /\ \A a \in DOMAIN ugsClients : ugsClients[a].PendingAcks = <<>>

\* C18: every accepted pickup changes the in-memory score from old_score to
\* exactly old_score + 10 (as numbers, on the limbs: the low limb grows by 10,
\* or wraps and carries one into the high limb), and attack and unknown
\* actions leave the score unchanged.
C18_PickupAddsExactlyTen ==
    /\ tally.action = "pickup" =>
          \/ /\ tally.score.hi = tally.before.hi
             /\ tally.score.lo = tally.before.lo + PickupPoints
          \/ /\ tally.score.hi = tally.before.hi + 1
             /\ tally.score.lo = tally.before.lo + PickupPoints - Limb
    /\ tally.action \in Actions \ {"pickup"} => tally.score = tally.before

\* away from the end of the range the pickup is the exact sum
PickupExactBelowWrap ==
    (tally.action = "pickup" /\ ~(tally.before.hi = Limb - 1 /\ tally.before.lo >= Limb - PickupPoints))
    => C18_PickupAddsExactlyTen

\* No datagram of a registered endpoint is ever handled: a handler never gets
\* as far as the known-endpoint branch of handleHeartbeat, and no lookup of
\* handleAck, handlePlayerMove, handlePlayerAction or handleChat ever finds a
\* client (the first admission never gives the mutex back).
UDPRegisteredNeverServed ==
    \A h \in Handlers :
        /\ hd[h].found = None
        /\ hd[h].pc = "check" => IsNewClient(ugsClients, hd[h].pkt.addr)
        /\ hd[h].pc \notin {"score", "broadcast"}

\* the frame types whose payload names a player
Identified == {"PlayerMove", "PlayerAction", "Chat"}

\* C14: a PlayerMove, PlayerAction or Chat frame on a stream connection whose
\* payload player_id is not the id of that connection changes nothing: no
\* position or score of the roster changes, no persistence call is made,
\* nothing is enqueued to any client (so no Error goes to the sender) and no
\* queue is closed.
C14_MismatchedFrameChangesNothing ==
    [][(/\ lastStep'.op = "HandleMessage"
        /\ lastStep'.frame.type \in Identified
        /\ lastStep'.frame.player_id # client[lastStep'.conn].ID)
       => /\ UNCHANGED <<client, gsClients, send, closedBy, closeCalls, panic, sessions>>
          /\ dbCalls' = <<>>]_vars

\* a frame naming player 1, who is in the roster, was handled on the
\* connection of another player of the roster
C14_Witness ==
    /\ lastStep.op = "HandleMessage"
    /\ lastStep.frame.type \in Identified
    /\ lastStep.frame.player_id # client[lastStep.conn].ID
    /\ lastStep.frame.player_id \in DOMAIN gsClients
    /\ client[lastStep.conn].ID \in DOMAIN gsClients
    /\ dbCalls = <<>>

\* C15: AddClient inserts the new client into the roster and enqueues to it
\* PlayerJoin (its own id and name) and then GameState (the roster with the
\* new player), with nothing before or between them; every client that was
\* already in the roster gets exactly one PlayerJoin enqueued: a full queue
\* is closed instead (the overflow policy) and a queue closed earlier takes
\* nothing; nobody outside the roster gets anything.
C15_AddClientJoinThenState ==
    [][lastStep'.op = "AddClient" =>
         LET c == lastStep'.conn
             id == client[c].ID
             join == NewPlayerJoinMessage(id, client[c].Player.name)
         IN /\ id \in DOMAIN gsClients' /\ gsClients'[id] = c
            /\ send'[c] = <<join, NewGameStateMessage(Snapshot(gsClients', client'))>>
            /\ \A d \in Conn \ {c} :
                 IF d \in Targets(gsClients, None) /\ closedBy[d] = "" /\ Len(send[d]) < SendCap
                 THEN send'[d] = Append(send[d], join)
                 ELSE send'[d] = send[d]]_vars

\* the same for the admissions in which the process does not panic
AddClientWithoutPanic ==
    [][lastStep'.op = "AddClient" /\ panic' = "" =>
         LET c == lastStep'.conn
             id == client[c].ID
             join == NewPlayerJoinMessage(id, client[c].Player.name)
         IN /\ id \in DOMAIN gsClients' /\ gsClients'[id] = c
            /\ send'[c] = <<join, NewGameStateMessage(Snapshot(gsClients', client'))>>
            /\ \A d \in Conn \ {c} :
                 IF d \in Targets(gsClients, None) /\ closedBy[d] = "" /\ Len(send[d]) < SendCap
                 THEN send'[d] = Append(send[d], join)
                 ELSE send'[d] = send[d]]_vars

\* C16: after a read error or the peer's close the player is first removed
\* from the game state, then end_session is called for its session, and the
\* connection is released last: whenever end_session is called for a
\* connection, its player is no longer in the roster.
C16_RemovedBeforeSessionEnds ==
    [][(lastStep'.op = "EndSession" /\ dbCalls' # <<>>)
          => client[lastStep'.conn].ID \notin DOMAIN gsClients]_vars

\* what the code does: end_session is called while the player is still in
\* the roster, the removal follows
SessionEndsBeforeRemoval ==
    [][(lastStep'.op = "EndSession" /\ dbCalls' # <<>>)
          => /\ client[lastStep'.conn].ID \in DOMAIN gsClients'
             /\ pc'[lastStep'.conn] = "remove"]_vars

\* q is an initial part of r
IsPrefix(q, r) == Len(q) <= Len(r) /\ SubSeq(r, 1, Len(q)) = q

StreamScoreWrittenThrough ==
    [][/\ \A i \in DOMAIN dbCalls' :
             dbCalls'[i].op = "UpdatePlayerScore"
             => dbCalls'[i].value = <<client'[gsClients[dbCalls'[i].player]].Player.score>>
       /\ \A c \in Conn :
             client'[c].Player.score # client[c].Player.score
             => \E i \in DOMAIN dbCalls' :
                   /\ dbCalls'[i].op = "UpdatePlayerScore"
                   /\ dbCalls'[i].player = client[c].ID
                   /\ dbCalls'[i].value = <<client[c].Player.score + PickupPoints>>]_vars

\* a persistence call of the step failed
SomeCallFailed(calls) == \E i \in DOMAIN calls : ~calls[i].ok

\* The realtime outcome of a step of a stream connection that makes
\* persistence calls, spelled out handler by handler: the roster mutation,
\* the frames enqueued and where the handler goes on. moved is where the read
\* loop stands after an accepted PlayerMove.
Outcome(moved) ==
        LET c == lastStep'.conn
            id == client[c].ID
            first == dbCalls'[1]
            open(d) == closedBy[d] = "" /\ Len(send[d]) < SendCap
            sentTo(ds, m) == \A d \in Conn :
                                IF d \in ds /\ open(d) THEN send'[d] = Append(send[d], m)
                                ELSE send'[d] = send[d]
        IN CASE lastStep'.op = "HandleConnection" ->
                  /\ pc'[c] = "add"
                  /\ UNCHANGED <<client, gsClients, send, closedBy>>
             [] lastStep'.op = "AddClient" ->
                  /\ id \in DOMAIN gsClients' /\ gsClients'[id] = c
                  /\ send'[c] = <<NewPlayerJoinMessage(id, client[c].Player.name),
                                  NewGameStateMessage(Snapshot(gsClients', client'))>>
                  /\ \A d \in Conn \ {c} :
                        IF d \in Targets(gsClients, None) /\ open(d)
                        THEN send'[d] = Append(send[d], NewPlayerJoinMessage(id, client[c].Player.name))
                        ELSE send'[d] = send[d]
                  /\ pc'[c] = "reading" /\ wp'[c] = "running"
             [] lastStep'.op = "HandleMessage" /\ first.op = "UpdatePlayerPosition" ->
                  /\ <<client'[c].Player.x, client'[c].Player.y>> = first.value
                  /\ sentTo(Targets(gsClients, id),
                            NewPlayerMoveMessage(id, first.value[1], first.value[2]))
                  /\ pc'[c] = moved
                  /\ UNCHANGED gsClients
             [] lastStep'.op = "HandleMessage" /\ first.op = "UpdatePlayerScore" ->
                  /\ client'[c].Player.score = client[c].Player.score + PickupPoints
                  /\ pc'[c] = "reading"
                  /\ UNCHANGED <<gsClients, send, closedBy>>
             [] lastStep'.op = "HandleMessage" /\ first.op = "LogEvent" ->
                  /\ pc'[c] = "reading"
                  /\ UNCHANGED <<client, gsClients, send, closedBy>>
             [] lastStep'.op = "HandleMessage" /\ first.op = "SaveChatMessage" ->
                  /\ sentTo(Targets(gsClients, None), NewChatMessage(id, first.value[1]))
                  /\ pc'[c] = "reading"
                  /\ UNCHANGED <<client, gsClients>>
             [] lastStep'.op = "EndSession" ->
                  /\ pc'[c] = "remove"
                  /\ UNCHANGED <<client, gsClients, send, closedBy>>
             [] lastStep'.op = "RemoveClient" ->
                  /\ id \notin DOMAIN gsClients'
                  /\ sentTo(Targets(gsClients', None), NewPlayerLeaveMessage(id))
                  /\ closedBy'[c] # "" /\ connClosed'[c]
                  /\ pc'[c] = "done"

\* C20: a failing persistence call never changes the realtime outcome of
\* stream connection setup, AddClient, HandleMessage and RemoveClient: the
\* roster mutation and the frames enqueued are those of the successful case
\* and the handler still terminates (after a frame the read loop is back at
\* ReadMessage). Steps in which the process panics are left out.
C20_FailedCallHandlerCompletes ==
    [][(SomeCallFailed(dbCalls') /\ panic' = "") => Outcome("reading")]_vars

\* the outcome is the same whether the calls of the step fail or succeed,
\* with the handler of an accepted PlayerMove ending in both cases waiting
\* for the read lock in broadcastGameState
OutcomeWhateverTheCalls ==
    [][(dbCalls' # <<>> /\ panic' = "") => Outcome("bgs_rlock")]_vars

\* datagram admission: whichever of CreateSession, CreateOrUpdatePlayer and
\* LogEvent fails, the handler goes on to insert the client it allocated
UDPAdmissionIgnoresFailure ==
    [][\A h \in Handlers :
          (hd'[h].pc = "admit" /\ hd[h].pc = "check")
          => /\ Len(dbCalls') = 3
             /\ hd'[h].uc.ID = hd[h].pkt.player_id
             /\ hd'[h].pkt = hd[h].pkt]_vars

\* the client has been timed out for a whole period of the sweeper, so a
\* sweep has come due since it timed out
EvictionDue(uc, t) == t - uc.LastSeen >= ClientTimeout + ClockStep

\* C21: every session created at connect gets its end timestamp set once the
\* connection is over; for a datagram client: once its timeout eviction has
\* come due, the session created at its admission is ended.
C21_OverSessionIsEnded ==
    \A a \in DOMAIN ugsClients :
        (ugsClients[a].SessionID # None /\ EvictionDue(ugsClients[a], now))
        => sessions[ugsClients[a].SessionID].ended

\* nothing in the datagram server ever ends a session
UDPNeverEndsSession ==
    /\ \A i \in DOMAIN sessions : ~sessions[i].ended
    /\ \A i \in DOMAIN dbCalls : dbCalls[i].op # "EndSession"

\* a stream connection that leaves its read loop with a session calls
\* EndSession for that session, and a successful call ends it
StreamSessionEndedAtDisconnect ==
    [][\A c \in Conn :
          (pc[c] = "end_session" /\ pc'[c] # "end_session" /\ sessionID[c] # None)
          => /\ Len(dbCalls') = 1
             /\ dbCalls'[1].op = "EndSession"
             /\ dbCalls'[1].value = <<sessionID[c]>>
             /\ dbCalls'[1].ok => sessions'[sessionID[c]].ended]_vars

\* No sequence is ever allocated on a datagram client and nothing is ever
\* pending: no reliable packet is sent at all.
UDPNoSequenceAllocated ==
    \A a \in DOMAIN ugsClients :
        /\ ugsClients[a].Sequence = 0
        /\ DOMAIN ugsClients[a].PendingAcks = {}

\* C23 (stream transport): an accepted Chat is delivered to every client of
\* the roster, the sender included: the chat frame is appended to the queue
\* of every roster client whose queue is open and has room.
C23_ChatReachesWholeRoster ==
    [][(/\ lastStep'.op = "HandleMessage"
        /\ lastStep'.frame.type = "Chat"
        /\ lastStep'.frame.player_id = client[lastStep'.conn].ID)
       => \A d \in Targets(gsClients, None) :
             (closedBy[d] = "" /\ Len(send[d]) < SendCap)
             => /\ Len(send'[d]) = Len(send[d]) + 1
                /\ Last(send'[d]).type = "Chat"
                /\ Last(send'[d]).player_id = client[lastStep'.conn].ID]_vars

\* the same for the chats in whose handling the process does not panic
ChatReachesRosterWithoutPanic ==
    [][(/\ lastStep'.op = "HandleMessage"
        /\ lastStep'.frame.type = "Chat"
        /\ lastStep'.frame.player_id = client[lastStep'.conn].ID
        /\ panic' = "")
       => \A d \in Conn :
             IF d \in Targets(gsClients, None) /\ closedBy[d] = "" /\ Len(send[d]) < SendCap
             THEN send'[d] = Append(send[d], NewChatMessage(client[lastStep'.conn].ID, "hi"))
             ELSE send'[d] = send[d]]_vars

\* on the stream transport every accepted PlayerMove persists the position
\* and writes a move event, and no other frame writes one
StreamMoveLogsEveryMove ==
    [][lastStep'.op = "HandleMessage" =>
          LET c == lastStep'.conn
              moves == {i \in DOMAIN dbCalls' :
                           dbCalls'[i].op = "LogEvent" /\ dbCalls'[i].value = <<"move">>}
              positions == {i \in DOMAIN dbCalls' : dbCalls'[i].op = "UpdatePlayerPosition"}
          IN IF lastStep'.frame.type = "PlayerMove"
                /\ lastStep'.frame.player_id = client[c].ID
             THEN /\ Cardinality(moves) = 1 /\ Cardinality(positions) = 1
                  /\ \A i \in positions :
                        dbCalls'[i].value = <<client'[c].Player.x, client'[c].Player.y>>
             ELSE moves = {} /\ positions = {}]_vars

\* no datagram handler ever changes a position or a score, makes a
\* persistence call about a move, an action or a chat, or relays anything
UDPNoStateEffect ==
    /\ \A a \in DOMAIN ugsClients :
          /\ ugsClients[a].Player = NewPlayer(ugsClients[a].ID, PlayerName(ugsClients[a].ID))
          /\ ugsClients[a].AckSequence = 0
    /\ \A i \in DOMAIN dbCalls :
          dbCalls[i].op \in {"CreateSession", "CreateOrUpdatePlayer", "LogEvent"}
          /\ (dbCalls[i].op = "LogEvent" => dbCalls[i].value = <<"join">>)
    /\ wire = <<>>

\* C27: in every reachable state of the stream roster each key id maps to a
\* client whose connection id and whose Player.id both equal that key, and
\* no two roster entries share a client or a player id.
C27_RosterKeyedByOwnId ==
    /\ \A id \in DOMAIN gsClients :
          /\ client[gsClients[id]].ID = id
          /\ client[gsClients[id]].Player.id = id
    /\ \A id1, id2 \in DOMAIN gsClients :
          (\/ gsClients[id1] = gsClients[id2]
           \/ client[gsClients[id1]].Player.id = client[gsClients[id2]].Player.id)
          => id1 = id2

\* a second client has just been admitted to the roster
C27_Witness ==
    /\ lastStep.op = "AddClient"
    /\ Cardinality(DOMAIN gsClients) = 2
    /\ client[lastStep.conn].ID \in DOMAIN gsClients

\* C29 (stream transport): the GameState enqueued to a newly admitted client
\* lists exactly the players of the roster at the moment of the admission:
\* the new player itself with x = 0, y = 0, health = 100, score = 0 and every
\* player already present with its current position and score.
C29_AdmissionSnapshotIsRoster ==
    [][lastStep'.op = "AddClient" =>
          LET c == lastStep'.conn
              id == client[c].ID
              added == {send'[c][i] : i \in (Len(send[c]) + 1)..Len(send'[c])}
          IN \A m \in added :
                m.type = "GameState"
                => /\ {p.id : p \in m.players} = DOMAIN gsClients \cup {id}
                   /\ Cardinality(m.players) = Cardinality(DOMAIN gsClients \cup {id})
                   /\ \A p \in m.players :
                         IF p.id = id
                         THEN p = [id |-> id, name |-> client[c].Player.name, x |-> 0,
                                   y |-> 0, health |-> 100, score |-> 0]
                         ELSE p = client[gsClients[p.id]].Player]_vars

\* a client has just been admitted and the GameState in its queue lists a
\* player admitted before it who has picked up an item since
C29_Witness ==
    /\ lastStep.op = "AddClient"
    /\ Len(send[lastStep.conn]) = 2
    /\ send[lastStep.conn][2].type = "GameState"
    /\ \E p \in send[lastStep.conn][2].players :
          p.id # client[lastStep.conn].ID /\ p.score = PickupPoints

\* the handlers in flight: connections whose goroutine has started and has
\* not returned
InFlight == {c \in Conn : pc[c] \notin {"idle", "done"}}

\* C30: on a shutdown signal the server stops accepting connections, lets the
\* handlers in flight finish and then closes the persistence handle before
\* the process exits: once the signal has ended the process, no handler is
\* left unfinished and database.Close() has run.
C30_GracefulShutdown ==
    proc.at = "killed" => (InFlight = {} /\ proc.dbClosed)

\* the handle is never closed, whatever happens
DatabaseNeverClosed == ~proc.dbClosed

\* C31: end_session is idempotent: an EndSession call on a session that is
\* already ended leaves its end timestamp unchanged, and an EndSession call
\* never changes any other session nor the number of sessions.
C31_EndSessionIdempotent ==
    store.last.op = "EndSession" =>
        /\ DOMAIN store.rows = DOMAIN store.last.before
        /\ \A i \in DOMAIN store.rows :
              (i # store.last.id \/ store.last.before[i].session_end # NullTime)
              => store.rows[i] = store.last.before[i]

\* EndSession has been called, later than its end, on a session that was
\* already ended, in a table of two sessions
C31_Witness ==
    /\ store.last.op = "EndSession"
    /\ Len(store.rows) = 2
    /\ store.last.id \in DOMAIN store.last.before
    /\ store.last.before[store.last.id].session_end # NullTime
    /\ store.last.before[store.last.id].session_end < store.last.at

\* an EndSession call on an open session stamps it with the time of the call
EndSessionStampsOpenSession ==
    (/\ store.last.op = "EndSession"
     /\ store.last.id \in DOMAIN store.last.before
     /\ store.last.before[store.last.id].session_end = NullTime)
    => store.rows[store.last.id].session_end = store.last.at

\* C40: the persisted player record survives leaving the live roster: when
\* a player id that already has a persisted record is admitted again, the
\* persisted position and score stay as last written.
C40_AdmissionKeepsRecord ==
    (/\ store.last.op = "Admission"
     /\ store.last.id \in DOMAIN store.last.before)
    => /\ store.players[store.last.id].x = store.last.before[store.last.id].x
       /\ store.players[store.last.id].y = store.last.before[store.last.id].y
       /\ store.players[store.last.id].score = store.last.before[store.last.id].score

\* leaving the live roster leaves every persisted record as last written
PersistedSurvivesLeaving ==
    store.last.op = "Leave" => store.players = store.last.before

\* no step but an admission lowers a persisted score
OnlyAdmissionResetsScore ==
    [][\A id \in DOMAIN store.players :
          (id \in DOMAIN store'.players /\ store'.players[id].score < store.players[id].score)
          => (store'.last.op = "Admission" /\ store'.last.id = id)]_vars

\* C36: the client table gains an entry only through a Heartbeat from an
\* unregistered endpoint: the step that adds an endpoint to either index is
\* the admission of a handler holding a Heartbeat of an endpoint not in the
\* table, and every step of a handler holding a PlayerMove, PlayerAction,
\* Chat or Ack of an endpoint that was never admitted (or that its lookup did
\* not find) leaves both indices unchanged, creates no session, makes no
\* persistence call and writes no datagram (no broadcast, no Ack).
C36_OnlyHeartbeatRegisters ==
    [][/\ (DOMAIN ugsClients' # DOMAIN ugsClients \/ DOMAIN clientByID' # DOMAIN clientByID)
          => \/ DOMAIN ugsClients' \subseteq DOMAIN ugsClients
             \/ \E h \in Handlers :
                  /\ hd[h].pc = "admit" /\ hd'[h].pc # "admit"
                  /\ hd[h].pkt.type = "Heartbeat"
                  /\ hd[h].pkt.addr \notin DOMAIN ugsClients
                  /\ DOMAIN ugsClients' = DOMAIN ugsClients \cup {hd[h].pkt.addr}
                  /\ DOMAIN clientByID' = DOMAIN clientByID \cup {hd[h].pkt.player_id}
       /\ \A h \in Handlers :
            (/\ hd[h].pc \in {"start", "body", "score", "broadcast"}
             /\ hd'[h] # hd[h]
             /\ hd[h].pkt.type \in {"PlayerMove", "PlayerAction", "Chat", "Ack"}
             /\ \/ admits[hd[h].pkt.addr] = 0
                \/ (hd[h].pc = "body" /\ hd[h].found = None))
            => /\ UNCHANGED <<ugsClients, clientByID, sessions, wire>>
               /\ dbCalls' = <<>>
               /\ hd'[h].pc \in {"body", "idle"}]_vars

\* a handler has looked up the endpoint of a PlayerMove and not found it,
\* while another endpoint is in the table
C36_Witness ==
    \E h \in Handlers :
        /\ hd[h].pc = "body"
        /\ hd[h].found = None
        /\ hd[h].pkt.type = "PlayerMove"
        /\ hd[h].pkt.addr \notin DOMAIN ugsClients
        /\ DOMAIN ugsClients # {}

\* C33: a stream broadcast never blocks on a slow consumer and the roster
\* lock is held only while the roster snapshot is taken: a handler that is
\* left holding GameState.mu at the end of its step has made no persistence
\* call and enqueued no message while it held it.
C33_LockOnlyForSnapshot ==
    [][(gsWriter = None /\ gsWriter' # None)
       => (dbCalls' = <<>> /\ send' = send)]_vars

\* an accepted Chat is broadcast without waiting: the handler returns, every
\* roster client with room gets the message, and a roster client whose queue
\* is full has its queue closed instead
FullQueueDoesNotBlock ==
    [][(/\ lastStep'.op = "HandleMessage"
        /\ lastStep'.frame.type = "Chat"
        /\ client[lastStep'.conn].ID \in DOMAIN gsClients
        /\ lastStep'.frame.player_id = client[lastStep'.conn].ID
        /\ panic' = "")
       => /\ gsWriter' = None
          /\ pc' = pc
          /\ \A id \in DOMAIN gsClients :
                LET k == gsClients[id]
                IN IF Len(send[k]) = SendCap
                   THEN closedBy'[k] = "overflow" /\ send'[k] = send[k]
                   ELSE Len(send'[k]) = Len(send[k]) + 1 /\ closedBy'[k] = closedBy[k]]_vars

\* a Chat was broadcast while a roster client's queue was full
FullQueueReached ==
    /\ lastStep.op = "HandleMessage"
    /\ lastStep.frame.type = "Chat"
    /\ \E c \in Conn : closedBy[c] = "overflow"
    /\ panic = ""

\* Once an endpoint is in the datagram client table, neither its entry nor
\* its client (pending packets, sequence counter, last seen, position, score)
\* ever changes again: no Ack, move, chat or action of it is served, no
\* retransmission is made and no sweep evicts it.
UDPClientNeverTouched ==
    [][\A a \in DOMAIN ugsClients :
          /\ a \in DOMAIN ugsClients'
          /\ ugsClients'[a] = ugsClients[a]]_vars

\* the retransmission sweep never gets past its first line with a client in
\* the table: it never looks at a client and never finds a pending packet
UDPSweepNeverResends ==
    /\ rel.pc = "idle"
    /\ rel.seqs = {}

====
